---- MODULE Spec2Model ----
(***************************************************************************)
(* Model of src/firewall.py: the POX component "Tutorial", one object per  *)
(* connected switch.  A Tutorial loads the firewall policy file, pushes    *)
(* one flow-mod per rule, and then acts as an L2 learning switch on the    *)
(* packet-in events of its connection.                                     *)
(*                                                                         *)
(* Text (the policy file, its lines and fields) is modelled as sequences   *)
(* of one-character strings, so that split / strip / lower / int are       *)
(* computed the way Python computes them.                                  *)
(***************************************************************************)
EXTENDS Integers, Sequences, FiniteSets, TLC

\* ------------------------------------------------------------------ bounds

\* Longest policy file, in lines, that Spec reads.
MaxLines == 2
\* Packet-in events one session handles under Spec (policy-rich runs).
MaxFwPkts == 1
\* Packet-in events one session handles under SpecLearn (packet-rich runs).
MaxPkts == 3
\* Packet-in events each of the two sessions handles under SpecPair.
MaxPairPkts == 2
\* Packet-in events delivered concurrently to one session under SpecRace.
MaxRacePkts == 2

\* ------------------------------------------------- protocol constants used

\* of.OFPP_ALL, the pseudo-port "all ports but the input port".
OFPP_ALL == 65532
\* firewall.dl_type = 0x0800 (IPv4).
IPV4_TYPE == 2048
\* firewall.nw_proto = 6
TCP_PROTO == 6
\* firewall.nw_proto = 17
UDP_PROTO == 17

\* ------------------------------------------------------------ text helpers

Digits == <<"0", "1", "2", "3", "4", "5", "6", "7", "8", "9">>

IsDigit(c) == \E i \in 1..10 : Digits[i] = c

DigitVal(c) == (CHOOSE i \in 1..10 : Digits[i] = c) - 1

UpperCase == <<"A", "B", "C", "D", "E", "F", "G", "H", "I", "J", "K", "L", "M",
               "N", "O", "P", "Q", "R", "S", "T", "U", "V", "W", "X", "Y", "Z">>

LowerCase == <<"a", "b", "c", "d", "e", "f", "g", "h", "i", "j", "k", "l", "m",
               "n", "o", "p", "q", "r", "s", "t", "u", "v", "w", "x", "y", "z">>

\* str.lower() on one character.
LowerChar(c) ==
    IF \E i \in 1..26 : UpperCase[i] = c
    THEN LowerCase[CHOOSE i \in 1..26 : UpperCase[i] = c]
    ELSE c

\* str.lower()
Lower(s) == [i \in 1..Len(s) |-> LowerChar(s[i])]

\* Python's  sub in s  for strings.
Contains(sub, s) ==
    \E i \in 0..(Len(s) - Len(sub)) :
        \A j \in 1..Len(sub) : s[i + j] = sub[j]

\* The characters str.strip() removes.
IsSpace(c) == c \in {" ", "\n", "\t", "\r"}

\* str.strip(): drop leading and trailing whitespace.
Strip(s) ==
    LET keep == {i \in 1..Len(s) : ~IsSpace(s[i])}
    IN  IF keep = {} THEN <<>>
        ELSE LET lo == CHOOSE i \in keep : \A j \in keep : i <= j
                 hi == CHOOSE i \in keep : \A j \in keep : j <= i
             IN  SubSeq(s, lo, hi)

\* str.split(sep) for a one-character separator: n separators give n + 1
\* fields, the empty string gives one empty field.
RECURSIVE Split(_, _)
Split(s, sep) ==
    LET at == {i \in 1..Len(s) : s[i] = sep}
    IN  IF at = {} THEN <<s>>
        ELSE LET k == CHOOSE i \in at : \A j \in at : i <= j
             IN  <<SubSeq(s, 1, k - 1)>> \o Split(SubSeq(s, k + 1, Len(s)), sep)

\* file.readlines(): the text cut after every newline, each line keeping its
\* newline; text after the last newline is a last line without one.
RECURSIVE ReadLines(_)
ReadLines(text) ==
    LET at == {i \in 1..Len(text) : text[i] = "\n"}
    IN  IF text = <<>> THEN <<>>
        ELSE IF at = {} THEN <<text>>
        ELSE LET k == CHOOSE i \in at : \A j \in at : i <= j
             IN  <<SubSeq(text, 1, k)>> \o ReadLines(SubSeq(text, k + 1, Len(text)))

\* The value of a non-empty string of decimal digits.
RECURSIVE DecimalVal(_)
DecimalVal(s) ==
    IF Len(s) = 0 THEN 0
    ELSE 10 * DecimalVal(SubSeq(s, 1, Len(s) - 1)) + DigitVal(s[Len(s)])

\* int(s) for a string: an optional sign and decimal digits give the number,
\* anything else raises ValueError (ok = FALSE).
IntOf(s) ==
    LET signed == Len(s) > 0 /\ s[1] \in {"+", "-"}
        body   == IF signed THEN Tail(s) ELSE s
        fine   == Len(body) > 0 /\ \A i \in 1..Len(body) : IsDigit(body[i])
    IN  IF ~fine THEN [ok |-> FALSE, val |-> 0]
        ELSE [ok |-> TRUE,
              val |-> IF signed /\ s[1] = "-" THEN 0 - DecimalVal(body)
                      ELSE DecimalVal(body)]

\* str(n) for a natural number.
RECURSIVE StrOf(_)
StrOf(n) ==
    IF n < 10 THEN <<Digits[n + 1]>>
    ELSE StrOf(n \div 10) \o <<Digits[(n % 10) + 1]>>

\* IPAddr(s) for a string: a dotted quad of decimal bytes gives the 32-bit
\* address, anything else raises (ok = FALSE).
IPAddr(s) ==
    LET parts == Split(s, ".")
        byte(p) == Len(p) \in 1..3 /\ (\A i \in 1..Len(p) : IsDigit(p[i]))
                   /\ DecimalVal(p) <= 255
    IN  IF Len(parts) = 4 /\ \A i \in 1..4 : byte(parts[i])
        THEN [ok |-> TRUE,
              val |-> ((DecimalVal(parts[1]) * 256 + DecimalVal(parts[2])) * 256
                       + DecimalVal(parts[3])) * 256 + DecimalVal(parts[4])]
        ELSE [ok |-> FALSE, val |-> 0]

\* ------------------------------------------------------------ input domains

Switches == {"s1", "s2"}

MACs == {"m1", "m2"}

Ports == {1, 2}

\* A packet-in event: the parsed packet's addresses, whether the packet was
\* decoded completely (packet.parsed), and the ofp_packet_in's in_port.
Packets == [src : MACs, dst : MACs, in_port : Ports, parsed : BOOLEAN]

IP1 == <<"1", "0", ".", "0", ".", "0", ".", "1">>

IP2 == <<"1", "0", ".", "0", ".", "0", ".", "2">>

\* 10.0.0.1,,80,tcp
LineSrcTcp == IP1 \o <<",", ",", "8", "0", ",", "t", "c", "p">>

\*  ,10.0.0.2,53,Udp     (a blank before the first comma)
LineDstUdp == <<" ", ",">> \o IP2 \o <<",", "5", "3", ",", "U", "d", "p">>

\* ,,22,                 (a port and no protocol)
LinePortOnly == <<",", ",", "2", "2", ",">>

\*  , ,,                 (four fields, all empty once stripped)
LineAllEmpty == <<" ", ",", " ", ",", ",">>

\* ,,,,                  (five empty fields)
LineFiveFields == <<",", ",", ",", ",">>

\* an empty line         (no comma: one field)
LineBlank == <<>>

\* ,,ssh,tcp             (a port that is no number)
LinePortName == <<",", ",", "s", "s", "h", ",", "t", "c", "p">>

\* ,,80,icmp             (a port with a protocol that is neither tcp nor udp)
LinePortIcmp == <<",", ",", "8", "0", ",", "i", "c", "m", "p">>

\* ,,53,tcp/udp          (a protocol field naming both)
LineTcpUdp == <<",", ",", "5", "3", ",", "t", "c", "p", "/", "u", "d", "p">>

\* h1,,,                 (a source that is no IP address)
LineHostName == <<"h", "1", ",", ",", ",">>

PolicyLines == {LineSrcTcp, LineDstUdp, LinePortOnly, LineAllEmpty, LineFiveFields,
                LineBlank, LinePortName, LinePortIcmp, LineTcpUdp, LineHostName}

\* The lines joined into a file text, each line ended by a newline.
RECURSIVE JoinLines(_)
JoinLines(ls) ==
    IF ls = <<>> THEN <<>> ELSE Head(ls) \o <<"\n">> \o JoinLines(Tail(ls))

LineSeqs(n) == UNION {[1..k -> PolicyLines] : k \in 0..n}

\* The state of pox/misc/firewall.txt when a session opens it: missing (or
\* unreadable), or a text of at most n lines; the last line of a text may
\* lack its newline.
NoFile == [exists |-> FALSE, text |-> <<>>]

PolicyFiles(n) ==
    {NoFile}
    \cup {[exists |-> TRUE, text |-> JoinLines(ls)] : ls \in LineSeqs(n)}
    \cup {[exists |-> TRUE, text |-> SubSeq(JoinLines(ls), 1, Len(JoinLines(ls)) - 1)] :
             ls \in LineSeqs(n) \ {<<>>}}

\* ------------------------------------------------------------------- state

VARIABLES
    listeners,       \* listeners[s]: connection.addListeners(self) was called
    connection,      \* connection[s]: the messages sent with connection.send, in order
    mac_to_port,     \* mac_to_port[s]: self.mac_to_port, a map MAC -> port
    firewall_rules,  \* firewall_rules[s]: self.firewall_rules, None or a list of rules
    raised,          \* raised[s]: __init__ ended by an exception out of set_firewall
    policy,          \* policy[s]: the policy file as load_rules found it (history)
    events,          \* events[s]: the packet-in events handled so far (history)
    before,          \* before[s]: mac_to_port and Len(connection) as the last handler began
    inflight         \* inflight[s]: the packets of the handlers between lines 157 and 160

vars == <<listeners, connection, mac_to_port, firewall_rules, raised, policy, events, before,
          inflight>>

\* The empty dict.
EmptyMap == [m \in {} |-> 0]

\* A map update that keeps the binding a key already has.
PutIfAbsent(t, k, v) == [m \in DOMAIN t \cup {k} |-> IF m \in DOMAIN t THEN t[m] ELSE v]

\* dict[k] = v
Put(t, k, v) == [m \in DOMAIN t \cup {k} |-> IF m = k THEN v ELSE t[m]]

\* self.firewall_rules = None
NoRules == [none |-> TRUE, list |-> <<>>]

\* self.firewall_rules = [...]
RuleList(l) == [none |-> FALSE, list |-> l]

\* An unset (wildcarded) field of an ofp_match is <<>>, a set one is <<v>>.
Unset == <<>>

\* of.ofp_match(): every field wildcarded.
ofp_match ==
    [dl_type |-> Unset, nw_src |-> Unset, nw_dst |-> Unset, nw_proto |-> Unset,
     tp_dst |-> Unset, dl_src |-> Unset, dl_dst |-> Unset]

\* of.ofp_flow_mod() with its match and action list; by names the sending method.
ofp_flow_mod(match, actions, by) ==
    [type |-> "flow_mod", match |-> <<match>>, data |-> <<>>, actions |-> actions, by |-> by]

\* of.ofp_packet_out() carrying the packet-in, with one output action.
ofp_packet_out(pkt, out_port) ==
    [type |-> "packet_out", match |-> <<>>, data |-> <<pkt>>, actions |-> <<out_port>>,
     by |-> "resend_packet"]

\* connection.send(msg)
Send(conn, msg) == Append(conn, msg)

\* --------------------------------------------------------------- load_rules

\* A field-count check that rejects only lines with too few fields.
InvalidRuleTooFew(rules) == Len(rules) < 4

\* len(rules) != 4
InvalidRule(rules) == Len(rules) # 4

\* A field list left as split gave it, without the strip.
StripNone(rules) == rules

\* list(map(str.strip, rules))
StripAll(rules) == [i \in 1..Len(rules) |-> Strip(rules[i])]

\* any(rules): some field is a non-empty string.
AnyField(rules) == \E i \in 1..Len(rules) : rules[i] # <<>>

\* The for loop of load_rules over the lines still to read, acc being
\* self.firewall_rules so far: the first invalid line sets None and returns.
RECURSIVE LoadLines(_, _)
LoadLines(lines, acc) ==
    IF lines = <<>> THEN RuleList(acc)
    ELSE LET rules == Split(Head(lines), ",")
         IN  IF InvalidRule(rules) THEN NoRules
             ELSE IF AnyField(StripAll(rules))
                  THEN LoadLines(Tail(lines), Append(acc, StripAll(rules)))
                  ELSE LoadLines(Tail(lines), acc)

\* A load_rules whose except branch leaves self.firewall_rules as it was.
load_rules_keep(file) ==
    IF ~file.exists THEN RuleList(<<>>)
    ELSE LoadLines(ReadLines(file.text), <<>>)

\* load_rules, called with self.firewall_rules = []: a file that cannot be
\* opened raises inside the try, and the except sets None.
load_rules(file) ==
    IF ~file.exists THEN NoRules
    ELSE LoadLines(ReadLines(file.text), <<>>)

\* ------------------------------------------------------------- set_firewall

StrAny == <<"A", "n", "y">>

StrTcp == <<"t", "c", "p">>

StrUdp == <<"u", "d", "p">>

\* A protocol test that compares without lower().
NwProtoCaseSensitive(port, protocol) ==
    LET named == IF protocol # <<>>
                 THEN IF Contains(StrTcp, protocol) THEN <<TCP_PROTO>>
                      ELSE IF Contains(StrUdp, protocol) THEN <<UDP_PROTO>>
                      ELSE Unset
                 ELSE Unset
        label == IF protocol # <<>> THEN protocol ELSE StrAny
    IN  IF port # <<>> /\ label = StrAny THEN <<TCP_PROTO>> ELSE named

\* A protocol choice without the TCP default for a port given alone.
NwProtoNoDefault(port, protocol) ==
    IF protocol # <<>>
    THEN IF Contains(StrTcp, Lower(protocol)) THEN <<TCP_PROTO>>
         ELSE IF Contains(StrUdp, Lower(protocol)) THEN <<UDP_PROTO>>
         ELSE Unset
    ELSE Unset

\* firewall.nw_proto after the protocol and port branches of one rule.
NwProto(port, protocol) ==
    LET named == IF protocol # <<>>
                 THEN IF Contains(StrTcp, Lower(protocol)) THEN <<TCP_PROTO>>
                      ELSE IF Contains(StrUdp, Lower(protocol)) THEN <<UDP_PROTO>>
                      ELSE Unset
                 ELSE Unset
        label == IF protocol # <<>> THEN protocol ELSE StrAny
    IN  IF port # <<>> /\ label = StrAny THEN <<TCP_PROTO>> ELSE named

\* The body of the for loop of set_firewall up to msg.match = firewall: the
\* match of one rule, or an exception out of IPAddr or int (ok = FALSE).
FirewallMatch(rule) ==
    LET src_addr == rule[1]
        dst_addr == rule[2]
        port     == rule[3]
        protocol == rule[4]
        src      == IPAddr(src_addr)
        dst      == IPAddr(dst_addr)
        num      == IntOf(port)
    IN  [ok    |-> /\ (src_addr # <<>> => src.ok)
                   /\ (dst_addr # <<>> => dst.ok)
                   /\ (port # <<>> => num.ok),
         match |-> [ofp_match EXCEPT
                       !.dl_type  = <<IPV4_TYPE>>,
                       !.nw_src   = IF src_addr # <<>> THEN <<src.val>> ELSE Unset,
                       !.nw_dst   = IF dst_addr # <<>> THEN <<dst.val>> ELSE Unset,
                       !.nw_proto = NwProto(port, protocol),
                       !.tp_dst   = IF port # <<>> THEN <<num.val>> ELSE Unset]]

\* The for loop of set_firewall over the rules still to apply: each rule's
\* flow-mod (no action) is sent on conn; an exception ends the loop.
RECURSIVE ApplyRules(_, _)
ApplyRules(rules, conn) ==
    IF rules = <<>> THEN [conn |-> conn, raised |-> FALSE]
    ELSE LET fw == FirewallMatch(Head(rules))
         IN  IF ~fw.ok THEN [conn |-> conn, raised |-> TRUE]
             ELSE ApplyRules(Tail(rules),
                             Send(conn, ofp_flow_mod(fw.match, <<>>, "set_firewall")))

\* set_firewall after load_rules: nothing is sent when firewall_rules is
\* None or empty.
set_firewall(rules, conn) ==
    IF rules.none \/ rules.list = <<>> THEN [conn |-> conn, raised |-> FALSE]
    ELSE ApplyRules(rules.list, conn)

\* ------------------------------------------------------------ packet-in path

\* resend_packet(packet_in, out_port)
resend_packet(conn, pkt, out_port) == Send(conn, ofp_packet_out(pkt, out_port))

\* of.ofp_match.from_packet(packet): the packet's own header fields (the
\* model's packets carry the two ethernet addresses).
from_packet(pkt) == [ofp_match EXCEPT !.dl_src = <<pkt.src>>, !.dl_dst = <<pkt.dst>>]

\* A learning step that binds the destination MAC instead of the source.
LearnDst(table, pkt) == Put(table, pkt.dst, IntOf(StrOf(pkt.in_port)).val)

\* The learning step of act_like_switch: mac_to_port[src_mac] = int(in_port),
\* in_port being str(packet_in.in_port).
Learn(table, pkt) == Put(table, pkt.src, IntOf(StrOf(pkt.in_port)).val)

\* dst_mac in self.mac_to_port
Known(table, dst_mac) == dst_mac \in DOMAIN table

\* A decision branch whose miss branch sends nothing.
ForwardDropUnknown(table, conn, pkt) ==
    IF pkt.dst \in DOMAIN table
    THEN LET out_port == table[pkt.dst]
         IN  Send(resend_packet(conn, pkt, out_port),
                  ofp_flow_mod(from_packet(pkt), <<out_port>>, "act_like_switch"))
    ELSE conn

\* A decision branch whose hit branch pushes the flow entry instead of
\* resending the packet.
ForwardInstallOnly(table, conn, pkt) ==
    IF pkt.dst \in DOMAIN table
    THEN Send(conn, ofp_flow_mod(from_packet(pkt), <<table[pkt.dst]>>, "act_like_switch"))
    ELSE resend_packet(conn, pkt, OFPP_ALL)

\* The decision branch of act_like_switch on the table after the learning
\* step: the connection after the sends.
Forward(table, conn, pkt) ==
    IF Known(table, pkt.dst)
    THEN LET out_port == table[pkt.dst]
         IN  Send(resend_packet(conn, pkt, out_port),
                  ofp_flow_mod(from_packet(pkt), <<out_port>>, "act_like_switch"))
    ELSE resend_packet(conn, pkt, OFPP_ALL)

\* An act_like_switch that looks the destination up before it learns the source.
act_like_switch_lookup_first(table, conn, pkt) ==
    [table |-> Learn(table, pkt), conn |-> Forward(table, conn, pkt)]

\* act_like_switch(packet, packet_in)
act_like_switch(table, conn, pkt) ==
    [table |-> Learn(table, pkt), conn |-> Forward(Learn(table, pkt), conn, pkt)]

\* A handler without the packet.parsed test.
handle_PacketIn_unchecked(table, conn, pkt) == act_like_switch(table, conn, pkt)

\* _handle_PacketIn(event): an incomplete packet is ignored.
handle_PacketIn(table, conn, pkt) ==
    IF ~pkt.parsed THEN [table |-> table, conn |-> conn]
    ELSE act_like_switch(table, conn, pkt)

\* ------------------------------------------------------------------ actions

Init ==
    /\ listeners = [s \in Switches |-> FALSE]
    /\ connection = [s \in Switches |-> <<>>]
    /\ mac_to_port = [s \in Switches |-> EmptyMap]
    /\ firewall_rules = [s \in Switches |-> RuleList(<<>>)]
    /\ raised = [s \in Switches |-> FALSE]
    /\ policy = [s \in Switches |-> NoFile]
    /\ events = [s \in Switches |-> <<>>]
    /\ before = [s \in Switches |-> [table |-> EmptyMap, sent |-> 0]]
    /\ inflight = [s \in Switches |-> <<>>]

\* Tutorial.__init__(connection) run to its end, the policy file being in
\* state file: the listener is bound, the table is emptied, the rules are
\* loaded and applied.
Construct(s, file) ==
    /\ LET rules == load_rules(file)
           run   == set_firewall(rules, connection[s])
       IN  /\ listeners' = [listeners EXCEPT ![s] = TRUE]
           /\ mac_to_port' = [mac_to_port EXCEPT ![s] = EmptyMap]
           /\ firewall_rules' = [firewall_rules EXCEPT ![s] = rules]
           /\ connection' = [connection EXCEPT ![s] = run.conn]
           /\ raised' = [raised EXCEPT ![s] = run.raised]
           /\ policy' = [policy EXCEPT ![s] = file]
    /\ UNCHANGED <<events, before, inflight>>

\* A ConnectionUp that builds a session again on a connection that has one.
ConnectionUpAgain(s, file) == Construct(s, file)

\* launch / start_switch: the ConnectionUp event of switch s, raised once
\* per connection, creates the connection's Tutorial.
ConnectionUp(s, file) ==
    /\ ~listeners[s]
    /\ Construct(s, file)

\* A packet-in handler whose learning table is one dict shared by all the
\* sessions (a class attribute).
PacketInShared(s, pkt, max) ==
    /\ listeners[s]
    /\ Len(events[s]) < max
    /\ LET r == handle_PacketIn(mac_to_port[s], connection[s], pkt)
       IN  /\ mac_to_port' = [t \in Switches |-> r.table]
           /\ connection' = [connection EXCEPT ![s] = r.conn]
    /\ events' = [events EXCEPT ![s] = Append(@, pkt)]
    /\ before' = [before EXCEPT ![s] = [table |-> mac_to_port[s],
                                        sent |-> Len(connection[s])]]
    /\ UNCHANGED <<listeners, firewall_rules, raised, policy, inflight>>

\* The runtime delivers packet-in event pkt to the listener of session s,
\* which handles it to its end; max bounds the events of one session.
PacketIn(s, pkt, max) ==
    /\ listeners[s]
    /\ Len(events[s]) < max
    /\ LET r == handle_PacketIn(mac_to_port[s], connection[s], pkt)
       IN  /\ mac_to_port' = [mac_to_port EXCEPT ![s] = r.table]
           /\ connection' = [connection EXCEPT ![s] = r.conn]
    /\ events' = [events EXCEPT ![s] = Append(@, pkt)]
    /\ before' = [before EXCEPT ![s] = [table |-> mac_to_port[s],
                                        sent |-> Len(connection[s])]]
    /\ UNCHANGED <<listeners, firewall_rules, raised, policy, inflight>>

\* The packet-ins of the policy-rich runs: those arriving on port 1.
FwPackets == {pkt \in Packets : pkt.in_port = 1}

\* One switch, any policy file of at most MaxLines lines, few packets.
Next ==
    \/ \E file \in PolicyFiles(MaxLines) : ConnectionUp("s1", file)
    \/ \E pkt \in FwPackets : PacketIn("s1", pkt, MaxFwPkts)

Spec == Init /\ [][Next]_vars

\* The policy files of the packet-rich runs: missing, empty, two rules.
FewFiles ==
    {NoFile, [exists |-> TRUE, text |-> <<>>],
     [exists |-> TRUE, text |-> JoinLines(<<LineSrcTcp, LinePortOnly>>)]}

\* One switch, few policy files, more packets.
NextLearn ==
    \/ \E file \in FewFiles : ConnectionUp("s1", file)
    \/ \E pkt \in Packets : PacketIn("s1", pkt, MaxPkts)

SpecLearn == Init /\ [][NextLearn]_vars

\* The packet-ins of the two-session runs.
PairPackets ==
    {[src |-> "m1", dst |-> "m2", in_port |-> 1, parsed |-> TRUE],
     [src |-> "m2", dst |-> "m1", in_port |-> 2, parsed |-> TRUE],
     [src |-> "m1", dst |-> "m1", in_port |-> 2, parsed |-> TRUE],
     [src |-> "m2", dst |-> "m1", in_port |-> 1, parsed |-> FALSE]}

\* Two switches, each with its own session, events interleaved.
NextPair ==
    \/ \E s \in Switches, file \in FewFiles : ConnectionUp(s, file)
    \/ \E s \in Switches, pkt \in PairPackets : PacketIn(s, pkt, MaxPairPkts)

SpecPair == Init /\ [][NextPair]_vars

\* A runtime that delivers the packet-ins of one connection concurrently
\* (one thread per event): the handler of pkt runs from its start through
\* the learning step (lines 191-157) and stays in flight; an incomplete
\* packet ends its handler at once.
PacketInBegin(s, pkt, max) ==
    /\ listeners[s]
    /\ Len(events[s]) < max
    /\ mac_to_port' = [mac_to_port EXCEPT ![s] = IF pkt.parsed THEN Learn(@, pkt) ELSE @]
    /\ inflight' = [inflight EXCEPT ![s] = IF pkt.parsed THEN Append(@, pkt) ELSE @]
    /\ events' = [events EXCEPT ![s] = Append(@, pkt)]
    /\ before' = [before EXCEPT ![s] = [table |-> mac_to_port[s],
                                        sent |-> Len(connection[s])]]
    /\ UNCHANGED <<listeners, firewall_rules, raised, policy, connection>>

\* The k-th handler in flight runs its decision branch (lines 160-184) on
\* the table as it is now, and ends.
PacketInEnd(s, k) ==
    /\ k \in 1..Len(inflight[s])
    /\ connection' = [connection EXCEPT ![s] = Forward(mac_to_port[s], @, inflight[s][k])]
    /\ inflight' = [inflight EXCEPT ![s] =
                       SubSeq(@, 1, k - 1) \o SubSeq(@, k + 1, Len(@))]
    /\ UNCHANGED <<listeners, firewall_rules, raised, policy, mac_to_port, events, before>>

\* One switch, few policy files, packet-ins handled concurrently.
NextRace ==
    \/ \E file \in FewFiles : ConnectionUp("s1", file)
    \/ \E pkt \in Packets : PacketInBegin("s1", pkt, MaxRacePkts)
    \/ \E k \in 1..MaxRacePkts : PacketInEnd("s1", k)

SpecRace == Init /\ [][NextRace]_vars

\* ------------------------------------------------- vocabulary of the claims

\* The last packet-in event session s handled.
LastPkt(s) == events[s][Len(events[s])]

\* The messages the last handler of session s sent.
Out(s) == SubSeq(connection[s], before[s].sent + 1, Len(connection[s]))

\* A firewall flow-mod: a flow-mod sent by set_firewall.
IsFirewall(msg) == msg.type = "flow_mod" /\ msg.by = "set_firewall"

\* A learning-based instruction: a packet-out, or a flow-mod with an output action.
IsLearning(msg) ==
    \/ msg.type = "packet_out"
    \/ msg.type = "flow_mod" /\ msg.actions # <<>>

\* A flood instruction for packet pkt.
IsFlood(msg, pkt) ==
    msg.type = "packet_out" /\ msg.data = <<pkt>> /\ msg.actions = <<OFPP_ALL>>

\* The source MACs of the packet-ins evs[1..n].
SourcesOf(evs, n) == {evs[i].src : i \in 1..n}

\* The positions among evs[1..n] of the complete packet-ins whose source is mac.
SeenAt(evs, n, mac) == {i \in 1..n : evs[i].parsed /\ evs[i].src = mac}

\* The greatest element of a non-empty set of numbers.
Latest(S) == CHOOSE i \in S : \A j \in S : j <= i

\* The number of comma-separated fields of a line.
FieldCount(line) == Cardinality({i \in 1..Len(line) : line[i] = ","}) + 1

\* The firewall flow-mods on the connection of session s, in order.
FirewallSent(s) == SelectSeq(connection[s], IsFirewall)

\* ------------------------------------------------------------------ claims

\* C1: on every connection, every firewall flow-mod comes before the first
\* learning-based instruction (a packet-out, or a flow-mod with an output
\* action): no learning-based instruction precedes a firewall flow-mod.
C1_FirewallBeforeLearning ==
    \A s \in Switches :
        \A i, j \in 1..Len(connection[s]) :
            (i < j /\ IsLearning(connection[s][i])) => ~IsFirewall(connection[s][j])

\* A session that sent firewall flow-mods and then learning-based instructions.
C1_Witness ==
    \E s \in Switches :
        /\ \E i \in 1..Len(connection[s]) : IsFirewall(connection[s][i])
        /\ \E j \in 1..Len(connection[s]) : IsLearning(connection[s][j])
        /\ events[s] # <<>>

\* C2 as stated: a complete packet-in whose destination MAC was the source of
\* no earlier packet-in of the session makes the handler send exactly one
\* message, the flood of that packet, and no flow-mod, whatever its source
\* MAC is (also when it equals the destination).
C2_FloodOnUnseenDst ==
    \A s \in Switches :
        (/\ events[s] # <<>>
         /\ LastPkt(s).parsed
         /\ LastPkt(s).dst \notin SourcesOf(events[s], Len(events[s]) - 1))
        => /\ Len(Out(s)) = 1
           /\ IsFlood(Out(s)[1], LastPkt(s))

\* C2 amended: the same, for a packet whose destination MAC differs from its
\* own source MAC.
C2_FloodOnUnseenOtherDst ==
    \A s \in Switches :
        (/\ events[s] # <<>>
         /\ LastPkt(s).parsed
         /\ LastPkt(s).dst # LastPkt(s).src
         /\ LastPkt(s).dst \notin SourcesOf(events[s], Len(events[s]) - 1))
        => /\ Len(Out(s)) = 1
           /\ IsFlood(Out(s)[1], LastPkt(s))

\* A later packet-in of a session, complete, to a MAC not yet seen that is
\* not its own source, has been handled.
C2_Witness ==
    \E s \in Switches :
        /\ Len(events[s]) >= 2
        /\ LastPkt(s).parsed
        /\ LastPkt(s).dst # LastPkt(s).src
        /\ LastPkt(s).dst \notin SourcesOf(events[s], Len(events[s]) - 1)
        /\ mac_to_port[s] # EmptyMap
        /\ Len(Out(s)) = 1

\* C3 as stated: a complete packet-in whose destination MAC was learned
\* earlier at port P (the ingress port of the latest earlier complete
\* packet-in from that MAC) makes the handler send exactly one message, a
\* flow-mod whose only action outputs to P, and no packet-out.
C3_HitInstallsFlowOnly ==
    \A s \in Switches :
        LET n    == Len(events[s])
            pkt  == LastPkt(s)
            seen == SeenAt(events[s], n - 1, pkt.dst)
        IN  (n > 0 /\ pkt.parsed /\ pkt.dst # pkt.src /\ seen # {})
            => /\ Len(Out(s)) = 1
               /\ Out(s)[1].type = "flow_mod"
               /\ Out(s)[1].actions = <<events[s][Latest(seen)].in_port>>

\* C4: the learning table has exactly the MACs seen as the source of a
\* complete packet-in, each bound to the ingress port of the latest such
\* packet-in, and the last handler removed no entry.
C4_TableIsLatestObservation ==
    \A s \in Switches :
        /\ DOMAIN mac_to_port[s] \subseteq MACs
        /\ \A mac \in MACs :
              LET seen == SeenAt(events[s], Len(events[s]), mac)
              IN  IF seen = {} THEN mac \notin DOMAIN mac_to_port[s]
                  ELSE /\ mac \in DOMAIN mac_to_port[s]
                       /\ mac_to_port[s][mac] = events[s][Latest(seen)].in_port
        /\ DOMAIN before[s].table \subseteq DOMAIN mac_to_port[s]

\* A MAC seen on one port and later on another: the table holds the later
\* port, and the other MAC, never a source, has no entry.
C4_Witness ==
    \E s \in Switches, mac \in MACs :
        LET seen == SeenAt(events[s], Len(events[s]), mac)
        IN  /\ Cardinality(seen) >= 2
            /\ \E i \in seen : events[s][i].in_port # events[s][Latest(seen)].in_port
            /\ mac_to_port[s][mac] = events[s][Latest(seen)].in_port
            /\ DOMAIN mac_to_port[s] = {mac}

\* The lines of the policy file session s read.
PolicyLinesOf(s) == ReadLines(policy[s].text)

\* The policy file of session s was read and has a line whose field count is not 4.
HasBadLine(s) ==
    /\ listeners[s]
    /\ policy[s].exists
    /\ \E i \in 1..Len(PolicyLinesOf(s)) : FieldCount(PolicyLinesOf(s)[i]) # 4

\* C5: when the policy file has a line whose comma-separated field count is
\* not 4, the session is left with no rules (None) and no firewall flow-mod
\* is on its connection, whatever valid lines precede or follow that line.
C5_BadLineDisablesFirewall ==
    \A s \in Switches :
        HasBadLine(s) => /\ firewall_rules[s] = NoRules
                         /\ FirewallSent(s) = <<>>
                         /\ \A i \in 1..Len(connection[s]) : connection[s][i].type # "flow_mod"
                                                             \/ connection[s][i].actions # <<>>

\* A policy file of two lines was loaded, the rule line "10.0.0.1,,80,tcp"
\* followed by a line of five fields, and a packet-in was handled.
C5_Witness ==
    \E s \in Switches :
        /\ HasBadLine(s)
        /\ Len(PolicyLinesOf(s)) = 2
        /\ \E i \in 1..2 : /\ FieldCount(PolicyLinesOf(s)[i]) = 4
                           /\ Contains(IP1, PolicyLinesOf(s)[i])
        /\ FieldCount(PolicyLinesOf(s)[1]) = 4
        /\ FieldCount(PolicyLinesOf(s)[2]) = 5
        /\ events[s] # <<>>

\* C6: a session built while the policy file is missing has no rules, sent no
\* firewall flow-mod and did not fail; and after the same packet-in events
\* its connection and learning table equal those of a session built from an
\* empty policy file.
C6_MissingPolicyActsAsEmpty ==
    \A s \in Switches :
        (listeners[s] /\ ~policy[s].exists)
        => /\ firewall_rules[s] = NoRules
           /\ ~raised[s]
           /\ FirewallSent(s) = <<>>
           /\ \A t \in Switches :
                 (/\ listeners[t]
                  /\ policy[t].exists
                  /\ firewall_rules[t] = RuleList(<<>>)
                  /\ events[t] = events[s])
                 => /\ connection[t] = connection[s]
                    /\ mac_to_port[t] = mac_to_port[s]

\* Two sessions, one built without a policy file and one from an empty one,
\* have handled the same two packet-ins, the second a hit.
C6_Witness ==
    \E s, t \in Switches :
        /\ listeners[s] /\ ~policy[s].exists
        /\ listeners[t] /\ policy[t].exists /\ firewall_rules[t] = RuleList(<<>>)
        /\ events[s] = events[t]
        /\ Len(events[s]) = 2
        /\ Len(Out(s)) = 2
        /\ connection[s] = connection[t]

\* Every line of the policy file session s read has 4 fields.
AllFourFields(s) ==
    /\ listeners[s]
    /\ policy[s].exists
    /\ \A i \in 1..Len(PolicyLinesOf(s)) : FieldCount(PolicyLinesOf(s)[i]) = 4

\* C7 as stated: building a session from a policy file made of 4-field lines
\* never ends by an exception out of set_firewall.
C7_ConstructionNeverRaises ==
    \A s \in Switches : AllFourFields(s) => ~raised[s]

\* C8: after an incomplete packet-in, the handler has sent nothing and the
\* learning table is the one it found.
C8_IncompletePacketIgnored ==
    \A s \in Switches :
        (events[s] # <<>> /\ ~LastPkt(s).parsed)
        => /\ Out(s) = <<>>
           /\ mac_to_port[s] = before[s].table

\* An incomplete packet-in from a MAC not in the table reached a session whose
\* table was not empty.
C8_Witness ==
    \E s \in Switches :
        /\ events[s] # <<>>
        /\ ~LastPkt(s).parsed
        /\ before[s].table # EmptyMap
        /\ LastPkt(s).src \notin DOMAIN mac_to_port[s]
        /\ connection[s] # <<>>

\* C9 as stated: after a successful load, the firewall flow-mods on the
\* connection are one per loaded rule, in rule order, each without actions,
\* all sent before the first packet-in was handled.
C9_OneFlowModPerRule ==
    \A s \in Switches :
        (listeners[s] /\ ~firewall_rules[s].none)
        => /\ Len(FirewallSent(s)) = Len(firewall_rules[s].list)
           /\ \A i \in 1..Len(FirewallSent(s)) : FirewallSent(s)[i].actions = <<>>
           /\ \A i \in 1..Len(connection[s]) :
                 IsFirewall(connection[s][i]) <=> i <= Len(firewall_rules[s].list)

\* The match of the i-th firewall flow-mod of session s, and the rule it is for.
MatchOf(s, i) == FirewallSent(s)[i].match[1]

RuleOf(s, i) == firewall_rules[s].list[i]

\* What C10 states of every rule and its match but the udp clause.
MatchFollowsRule(rule, match) ==
    /\ match.dl_type = <<IPV4_TYPE>>
    /\ (match.nw_src # <<>>) <=> (rule[1] # <<>>)
    /\ (match.nw_dst # <<>>) <=> (rule[2] # <<>>)
    /\ (match.tp_dst # <<>>) <=> (rule[3] # <<>>)
    /\ Contains(StrTcp, Lower(rule[4])) => match.nw_proto = <<TCP_PROTO>>
    /\ (rule[3] # <<>> /\ rule[4] = <<>>) => match.nw_proto = <<TCP_PROTO>>
    /\ rule = <<IP1, <<>>, <<"8", "0">>, StrTcp>>
       => match = [ofp_match EXCEPT !.dl_type = <<IPV4_TYPE>>, !.nw_src = <<167772161>>,
                                    !.nw_proto = <<TCP_PROTO>>, !.tp_dst = <<80>>]

\* C10 as stated: every match sent for a loaded rule has type IPv4, constrains
\* source, destination and port exactly when the rule's field is non-empty,
\* has protocol 6 when the protocol field contains "tcp" in any case, 17 when
\* it contains "udp" in any case, and 6 when there is a port and no protocol.
C10_MatchFollowsRule ==
    \A s \in Switches :
        \A i \in 1..Len(FirewallSent(s)) :
            /\ MatchFollowsRule(RuleOf(s, i), MatchOf(s, i))
            /\ Contains(StrUdp, Lower(RuleOf(s, i)[4])) => MatchOf(s, i).nw_proto = <<UDP_PROTO>>

\* C10 amended: the same, with protocol 17 when the protocol field contains
\* "udp" and does not contain "tcp".
C10_MatchFollowsRuleTcpFirst ==
    \A s \in Switches :
        \A i \in 1..Len(FirewallSent(s)) :
            /\ MatchFollowsRule(RuleOf(s, i), MatchOf(s, i))
            /\ (Contains(StrUdp, Lower(RuleOf(s, i)[4]))
                /\ ~Contains(StrTcp, Lower(RuleOf(s, i)[4])))
               => MatchOf(s, i).nw_proto = <<UDP_PROTO>>

\* The matches of the rule lines "10.0.0.1,,80,tcp" and " ,10.0.0.2,53,Udp"
\* were sent, in that order.
C10_Witness ==
    \E s \in Switches :
        /\ Len(FirewallSent(s)) = 2
        /\ RuleOf(s, 1) = <<IP1, <<>>, <<"8", "0">>, StrTcp>>
        /\ MatchOf(s, 1).tp_dst = <<80>>
        /\ RuleOf(s, 2)[2] = IP2
        /\ MatchOf(s, 2).nw_proto = <<UDP_PROTO>>
        /\ MatchOf(s, 2).nw_src = <<>>

\* Line has text in its j-th comma-separated field: a character that is
\* neither a comma nor whitespace, with j - 1 commas before it.
FieldHasText(line, j) ==
    \E i \in 1..Len(line) :
        /\ line[i] # ","
        /\ ~IsSpace(line[i])
        /\ Cardinality({k \in 1..(i - 1) : line[k] = ","}) = j - 1

\* The positions of the lines of session s's policy file that have text in
\* some field.
RuleLinesOf(s) ==
    {i \in 1..Len(PolicyLinesOf(s)) : \E j \in 1..4 : FieldHasText(PolicyLinesOf(s)[i], j)}

\* C11: when every line of the policy file has 4 fields, the load succeeds
\* and the rules are, in file order, one per line that has text in some
\* field; a field of a rule is empty exactly when the field of its line has
\* no text; lines without text in any field give no rule.
C11_RulesFollowLines ==
    \A s \in Switches :
        AllFourFields(s)
        => /\ ~firewall_rules[s].none
           /\ Len(firewall_rules[s].list) = Cardinality(RuleLinesOf(s))
           /\ \A k \in 1..Len(firewall_rules[s].list) :
                 \E i \in RuleLinesOf(s) :
                    /\ Cardinality({h \in RuleLinesOf(s) : h <= i}) = k
                    /\ Len(RuleOf(s, k)) = 4
                    /\ \A j \in 1..4 :
                          (RuleOf(s, k)[j] = <<>>) <=> ~FieldHasText(PolicyLinesOf(s)[i], j)

\* A policy file of two 4-field lines was loaded, the first with blanks only
\* and the second a rule line: one rule, whose blank first field is empty.
C11_Witness ==
    \E s \in Switches :
        /\ AllFourFields(s)
        /\ Len(PolicyLinesOf(s)) = 2
        /\ RuleLinesOf(s) = {2}
        /\ Len(firewall_rules[s].list) = 1
        /\ RuleOf(s, 1)[1] = <<>>
        /\ RuleOf(s, 1)[2] = IP2

\* C12: a step in which session s handles a packet-in leaves the learning
\* table and the connection of every other session as they were, and sends a
\* forwarding flow-mod (a lookup hit) only when the destination MAC was the
\* source of a complete packet-in of session s itself.
C12_SessionsIsolated ==
    [][\A s \in Switches :
          (events'[s] # events[s])
          => /\ \A t \in Switches \ {s} :
                   /\ mac_to_port'[t] = mac_to_port[t]
                   /\ connection'[t] = connection[t]
                   /\ events'[t] = events[t]
             /\ (Len(connection'[s]) = Len(connection[s]) + 2)
                => SeenAt(events'[s], Len(events'[s]),
                          events'[s][Len(events'[s])].dst) # {}]_vars

\* Two live sessions: one has learned m1, the other has not and has just
\* flooded a complete packet addressed to m1.
C12_Witness ==
    \E s, t \in Switches :
        /\ s # t
        /\ listeners[s] /\ listeners[t]
        /\ "m1" \in DOMAIN mac_to_port[s]
        /\ "m1" \notin DOMAIN mac_to_port[t]
        /\ events[t] # <<>>
        /\ LastPkt(t).parsed
        /\ LastPkt(t).dst = "m1"
        /\ Len(Out(t)) = 1
        /\ IsFlood(Out(t)[1], LastPkt(t))

\* The table and connection after the handlers of evs ran one after the
\* other, each to its end.
RECURSIVE SerialRun(_, _, _)
SerialRun(table, conn, evs) ==
    IF evs = <<>> THEN [table |-> table, conn |-> conn]
    ELSE LET r == handle_PacketIn(table, conn, Head(evs))
         IN  SerialRun(r.table, r.conn, Tail(evs))

\* The orders in which the events evs can be handled.
OrdersOf(evs) ==
    {[i \in 1..Len(evs) |-> evs[p[i]]] :
        p \in {q \in [1..Len(evs) -> 1..Len(evs)] :
                  \A a, b \in 1..Len(evs) : q[a] = q[b] => a = b}}

\* C13 as stated: once the handlers of the packet-ins delivered concurrently
\* to a session have all ended, the learning table and the messages on the
\* connection are those of the handlers run one at a time in some order.
C13_ConcurrentIsSerial ==
    \A s \in Switches :
        (listeners[s] /\ inflight[s] = <<>>)
        => \E evs \in OrdersOf(events[s]) :
              SerialRun(EmptyMap, FirewallSent(s), evs)
                 = [table |-> mac_to_port[s], conn |-> connection[s]]

\* C14: after a complete packet-in the table binds the packet's source MAC
\* to its ingress port, and the decision was taken on the table holding that
\* binding: a hit exactly when the destination is the packet's own source or
\* was in the table before, sent to the ingress port in the first case and
\* to the port the table had in the second; a flood otherwise.
C14_LearnBeforeLookup ==
    \A s \in Switches :
        (events[s] # <<>> /\ LastPkt(s).parsed)
        => LET pkt == LastPkt(s)
               old == before[s].table
               hit == pkt.dst = pkt.src \/ pkt.dst \in DOMAIN old
           IN  /\ pkt.src \in DOMAIN mac_to_port[s]
               /\ mac_to_port[s][pkt.src] = pkt.in_port
               /\ hit => /\ Len(Out(s)) = 2
                         /\ Out(s)[1].actions =
                               <<IF pkt.dst = pkt.src THEN pkt.in_port ELSE old[pkt.dst]>>
                         /\ Out(s)[2].actions = Out(s)[1].actions
               /\ ~hit => /\ Len(Out(s)) = 1
                          /\ IsFlood(Out(s)[1], pkt)

\* A complete packet addressed to its own source arrived on another port than
\* the one the table had for that MAC, and was sent to the new port.
C14_Witness ==
    \E s \in Switches :
        /\ events[s] # <<>>
        /\ LastPkt(s).parsed
        /\ LastPkt(s).dst = LastPkt(s).src
        /\ LastPkt(s).src \in DOMAIN before[s].table
        /\ before[s].table[LastPkt(s).src] # LastPkt(s).in_port
        /\ Len(Out(s)) = 2
        /\ Out(s)[1].actions = <<LastPkt(s).in_port>>

\* The positions in the messages of the last handler of session s that hold
\* a packet-out.
PacketOutsOf(s) == {i \in 1..Len(Out(s)) : Out(s)[i].type = "packet_out"}

IsDirected(msg) == msg.actions # <<OFPP_ALL>>

\* C16 as stated: no directed packet-out and no forwarding flow-mod that the
\* handler of a complete packet-in sends outputs to the ingress port of that
\* packet-in.
C16_NeverBackToIngress ==
    \A s \in Switches :
        (events[s] # <<>> /\ LastPkt(s).parsed)
        => \A i \in 1..Len(Out(s)) :
              IsDirected(Out(s)[i]) => Out(s)[i].actions # <<LastPkt(s).in_port>>

\* The destination MAC of the last packet-in of session s is its own source,
\* or was last seen, before it, on the port this packet arrived on.
DstOnIngressPort(s) ==
    LET pkt  == LastPkt(s)
        seen == SeenAt(events[s], Len(events[s]) - 1, pkt.dst)
    IN  \/ pkt.dst = pkt.src
        \/ seen # {} /\ events[s][Latest(seen)].in_port = pkt.in_port

\* C16 amended: the same, unless the destination MAC is the packet's own
\* source or was last learned on the ingress port of the packet.
C16_BackToIngressOnlyIfLearnedThere ==
    \A s \in Switches :
        (events[s] # <<>> /\ LastPkt(s).parsed /\ ~DstOnIngressPort(s))
        => \A i \in 1..Len(Out(s)) :
              IsDirected(Out(s)[i]) => Out(s)[i].actions # <<LastPkt(s).in_port>>

\* A complete packet arrived on one port for a MAC last learned on another
\* port: both messages of the handler output to that other port.
C16_Witness ==
    \E s \in Switches :
        LET seen == SeenAt(events[s], Len(events[s]) - 1, LastPkt(s).dst)
        IN  /\ events[s] # <<>>
            /\ LastPkt(s).parsed
            /\ ~DstOnIngressPort(s)
            /\ seen # {}
            /\ Len(Out(s)) = 2
            /\ \A i \in 1..2 : /\ IsDirected(Out(s)[i])
                               /\ Out(s)[i].actions = <<events[s][Latest(seen)].in_port>>

ProtocolNamed(rule) ==
    \/ rule[4] = <<>>
    \/ Contains(StrTcp, Lower(rule[4]))
    \/ Contains(StrUdp, Lower(rule[4]))

====
